---- MODULE Spec2Model ----
(***************************************************************************)
(* Model of RLS_Shiny.py: the spreadsheet loader/validator                 *)
(* (cargar_y_validar_datos), the simple-linear-regression engine           *)
(* (calcular_estadisticos, crear_grafico_interactivo) and the Shiny server *)
(* whose four outputs (status, estadisticos, interpretacion, plot) are     *)
(* re-rendered from the uploaded file and the four sliders.                *)
(*                                                                         *)
(* Numbers are exact rationals extended with NaN and +/-Inf, with the      *)
(* IEEE-754 rules numpy applies to division by zero (x/0 is +/-Inf, 0/0 is *)
(* NaN, no exception).  Rounding error of float64 is not modelled.         *)
(***************************************************************************)
EXTENDS Integers, Sequences, FiniteSets, TLC

\* ------------------------------------------------------------------ bounds
MaxRows == 1      \* data rows of a sheet drawn for the loader
MaxN    == 3      \* rows of a dataset drawn for the engine
MaxVal  == 2      \* X and Y values of a dataset drawn for the engine

ColCounts == {2, 3, 4}   \* column counts of the sheets drawn for the loader

\* ------------------------------------------------- extended rational numbers
Abs(i) == IF i < 0 THEN -i ELSE i

Sgn(i) == IF i < 0 THEN -1 ELSE IF i > 0 THEN 1 ELSE 0

RECURSIVE GCD(_, _)
GCD(a, b) == IF b = 0 THEN a ELSE GCD(b, a % b)

NaN == [k |-> "nan", n |-> 0, d |-> 0]

Inf(s) == [k |-> "inf", n |-> s, d |-> 0]

\* the finite number n/d (d # 0) in lowest terms with a positive denominator
Frac(n, d) ==
    LET g == GCD(Abs(n), Abs(d))
    IN  [k |-> "fin", n |-> Sgn(d) * (n \div g), d |-> Abs(d) \div g]

Num(i) == [k |-> "fin", n |-> i, d |-> 1]

IsFinite(r) == r.k = "fin"

RAdd(a, b) ==
    IF a.k = "nan" \/ b.k = "nan" THEN NaN
    ELSE IF a.k = "inf" /\ b.k = "inf" THEN (IF a.n = b.n THEN a ELSE NaN)
    ELSE IF a.k = "inf" THEN a
    ELSE IF b.k = "inf" THEN b
    ELSE Frac(a.n * b.d + b.n * a.d, a.d * b.d)

RNeg(a) == IF a.k = "nan" THEN NaN ELSE [a EXCEPT !.n = -a.n]

RSub(a, b) == RAdd(a, RNeg(b))

RMul(a, b) ==
    IF a.k = "nan" \/ b.k = "nan" THEN NaN
    ELSE IF a.k = "inf" \/ b.k = "inf"
         THEN (IF a.n = 0 \/ b.n = 0 THEN NaN ELSE Inf(Sgn(a.n) * Sgn(b.n)))
    ELSE Frac(a.n * b.n, a.d * b.d)

\* numpy float64 division: no exception, 0/0 = NaN, x/0 = +/-Inf
RDiv(a, b) ==
    IF a.k = "nan" \/ b.k = "nan" THEN NaN
    ELSE IF a.k = "inf" THEN (IF b.k = "inf" THEN NaN
                              ELSE Inf(IF b.n < 0 THEN -a.n ELSE a.n))
    ELSE IF b.k = "inf" THEN Num(0)
    ELSE IF b.n = 0 THEN (IF a.n = 0 THEN NaN ELSE Inf(Sgn(a.n)))
    ELSE Frac(a.n * b.d, a.d * b.n)

RLess(a, b) == a.n * b.d < b.n * a.d      \* finite a, b only

RECURSIVE SumTo(_, _)
SumTo(s, n) == IF n = 0 THEN Num(0) ELSE RAdd(SumTo(s, n - 1), s[n])

\* Series.sum(): the terms added from the first to the last
SumSeq(s) == SumTo(s, Len(s))

\* ------------------------------------------------------- sheets on disk
\* A cell of a data row: a number, a text, or an empty cell.
NumCell(v) == [t |-> "num", v |-> v]

TextCell == [t |-> "text", v |-> 0]

NullCell == [t |-> "null", v |-> 0]

\* A cell of the header row: a text, an empty cell, or a number.
StrHeader(s) == [t |-> "str", v |-> s]

EmptyHeader == [t |-> "empty", v |-> ""]

IntHeader == [t |-> "int", v |-> "2024"]

\* An uploaded file: its name, whether it is unreadable as .xlsx, and the
\* sheet it holds (header row, data rows; every row has Len(header) cells).
XlsxFile(name, header, rows) ==
    [name |-> name, corrupt |-> FALSE, header |-> header, rows |-> rows]

CorruptFile(name) ==
    [name |-> name, corrupt |-> TRUE, header |-> <<>>, rows |-> <<>>]

\* --------------------------------------------------------- pd.read_excel
UnnamedLabel(j) == <<"Unnamed: 0", "Unnamed: 1", "Unnamed: 2", "Unnamed: 3", "Unnamed: 4">>[j]

\* pandas names a column whose header cell is empty "Unnamed: <j>" (a str);
\* a text header stays a str and a numeric header stays a number.
ColumnLabel(h, j) ==
    IF h.t = "empty" THEN [t |-> "str", v |-> UnnamedLabel(j)] ELSE h

\* raises on an unreadable file, else the DataFrame of the first sheet
read_excel(f) ==
    IF f.corrupt
    THEN [raised |-> TRUE, columns |-> <<>>, rows |-> <<>>]
    ELSE [raised |-> FALSE,
          columns |-> [j \in 1..Len(f.header) |-> ColumnLabel(f.header[j], j)],
          rows |-> f.rows]

Column(df, j) == [i \in 1..Len(df.rows) |-> df.rows[i][j]]

\* dtype pandas infers for column j (1-based here; iloc[:, j-1] in the code)
Dtype(df, j) ==
    LET col == Column(df, j)
    IN  IF Len(col) = 0 THEN "object"
        ELSE IF \E i \in 1..Len(col) : col[i].t = "text" THEN "object"
        ELSE IF \E i \in 1..Len(col) : col[i].t = "null" THEN "float64"
        ELSE "int64"

is_numeric_dtype(df, j) == Dtype(df, j) \in {"int64", "float64"}

\* data.isnull().any().any()
HasNull(df) ==
    \E i \in 1..Len(df.rows) : \E j \in 1..Len(df.rows[i]) : df.rows[i][j].t = "null"

AllStrColumns(df) == \A j \in 1..Len(df.columns) : df.columns[j].t = "str"

\* ------------------------------------------------ cargar_y_validar_datos
\* The messages are the source's, written without their accents.
MsgTresColumnas == "El archivo debe contener exactamente tres columnas."

MsgEncabezado == "Cada columna debe tener un encabezado."

MsgNumericas == "Las columnas de la variable independiente y dependiente deben ser numericas."

MsgNulos == "Las columnas no deben contener valores nulos."

MsgNoCarga == "No se pudo cargar el archivo. Verifica que sea un archivo .xlsx valido."

\* A returned pair (data, error_msg); None is the empty sequence.
Ret(data, msg) == [raised |-> FALSE, data |-> data, error_msg |-> msg]

Raised == [raised |-> TRUE, data |-> <<>>, error_msg |-> <<>>]

\* the same body with the null check moved before the numeric check
TryBodyNullFirst(f) ==
    LET data == read_excel(f)
    IN  IF data.raised THEN Raised
        ELSE IF Len(data.columns) # 3 THEN Ret(<<>>, <<MsgTresColumnas>>)
        ELSE IF ~AllStrColumns(data) THEN Ret(<<>>, <<MsgEncabezado>>)
        ELSE IF HasNull(data) THEN Ret(<<>>, <<MsgNulos>>)
        ELSE IF ~is_numeric_dtype(data, 2) \/ ~is_numeric_dtype(data, 3)
             THEN Ret(<<>>, <<MsgNumericas>>)
        ELSE Ret(<<data>>, <<>>)

\* the body of the try block (lines 9-19)
TryBody(f) ==
    LET data == read_excel(f)
    IN  IF data.raised THEN Raised
        ELSE IF Len(data.columns) # 3 THEN Ret(<<>>, <<MsgTresColumnas>>)
        ELSE IF ~AllStrColumns(data) THEN Ret(<<>>, <<MsgEncabezado>>)
        ELSE IF ~is_numeric_dtype(data, 2) \/ ~is_numeric_dtype(data, 3)
             THEN Ret(<<>>, <<MsgNumericas>>)
        ELSE IF HasNull(data) THEN Ret(<<>>, <<MsgNulos>>)
        ELSE Ret(<<data>>, <<>>)

\* the loader without its except clause
cargar_sin_except(filepath) == TryBody(filepath)

cargar_y_validar_datos(filepath) ==
    LET r == TryBody(filepath)
    IN  IF r.raised THEN Ret(<<>>, <<MsgNoCarga>>) ELSE r

\* ------------------------------------------------- calcular_estadisticos
Values(df, j) == [i \in 1..Len(df.rows) |-> Num(df.rows[i][j].v)]

Mean(S) == RDiv(SumSeq(S), Num(Len(S)))

\* Series.cov / Series.var: sample normalisation (ddof = 1)
Cov(X, Y) ==
    LET mx == Mean(X)
        my == Mean(Y)
    IN  RDiv(SumSeq([i \in 1..Len(X) |-> RMul(RSub(X[i], mx), RSub(Y[i], my))]),
             Num(Len(X) - 1))

Var(X) == Cov(X, X)

\* v ** 0.5 keeps NaN and Inf and turns a negative number into NaN; the
\* field holds the radicand, the root itself not being rational
PowHalf(v) ==
    IF v.k = "fin" /\ v.n < 0 THEN NaN
    ELSE IF v.k = "inf" /\ v.n < 0 THEN NaN
    ELSE v

Residuals2(X, Y, a, b) ==
    SumSeq([i \in 1..Len(X) |->
              LET e == RSub(Y[i], RAdd(a, RMul(b, X[i]))) IN RMul(e, e)])

\* the same engine with the intercept's sign slipped
calcular_estadisticos_plus(data) ==
    LET X == Values(data, 2)
        Y == Values(data, 3)
        n == Len(X)
        cov == Cov(X, Y)
        var == Var(X)
        b == RDiv(cov, var)
        a == RAdd(Mean(Y), RMul(b, Mean(X)))
    IN  [pendiente |-> b,
         interseccion |-> a,
         coef_determinacion |-> RDiv(RMul(cov, cov), RMul(var, Var(Y))),
         error_estandar2 |-> PowHalf(RDiv(Residuals2(X, Y, a, b), Num(n - 2)))]

\* coef_determinacion is r ** 2 = cov^2 / (var X * var Y); error_estandar2
\* is the radicand of error_estandar
calcular_estadisticos(data) ==
    LET X == Values(data, 2)
        Y == Values(data, 3)
        n == Len(X)
        cov == Cov(X, Y)
        var == Var(X)
        b == RDiv(cov, var)
        a == RSub(Mean(Y), RMul(b, Mean(X)))
    IN  [pendiente |-> b,
         interseccion |-> a,
         coef_determinacion |-> RDiv(RMul(cov, cov), RMul(var, Var(Y))),
         error_estandar2 |-> PowHalf(RDiv(Residuals2(X, Y, a, b), Num(n - 2)))]

\* y = a + b * x  (lines 60 and 137)
Predict(a, b, x) == RAdd(a, RMul(b, x))

\* --------------------------------------------- crear_grafico_interactivo
RECURSIVE SeqMax(_)
SeqMax(S) ==
    IF Len(S) = 1 THEN S[1]
    ELSE LET m == SeqMax(Tail(S)) IN IF RLess(m, S[1]) THEN S[1] ELSE m

RECURSIVE SeqMin(_)
SeqMin(S) ==
    IF Len(S) = 1 THEN S[1]
    ELSE LET m == SeqMin(Tail(S)) IN IF RLess(S[1], m) THEN S[1] ELSE m

\* the figure: the point cloud, the two ends of the fitted line over the
\* X range widened by half its width on each side, the hypothetical point
\* and the axis titles
crear_grafico_interactivo(data, a, b, x_hypothetical) ==
    LET X == Values(data, 2)
        Y == Values(data, 3)
        X_range == RSub(SeqMax(X), SeqMin(X))
        X_min == RSub(SeqMin(X), RMul(X_range, Frac(1, 2)))
        X_max == RAdd(SeqMax(X), RMul(X_range, Frac(1, 2)))
    IN  [scatter |-> [x |-> X, y |-> Y],
         line |-> [x |-> <<X_min, X_max>>,
                   y |-> <<Predict(a, b, X_min), Predict(a, b, X_max)>>],
         point |-> [x |-> x_hypothetical,
                    y |-> Predict(a, b, Num(x_hypothetical))],
         xaxis_title |-> data.columns[2].v,
         yaxis_title |-> data.columns[3].v]

\* ------------------------------------------------------------- app_ui
SignoMin == -1
SignoMax == 1
SignoStep == 2
DigitMin == 0
DigitMax == 9

\* the positions of a slider: min, min + step, ... up to max
SliderValues(min, max, step) == {v \in min..max : (v - min) % step = 0}

SignoValues == SliderValues(SignoMin, SignoMax, SignoStep)

DigitValues == SliderValues(DigitMin, DigitMax, 1)

\* ----------------------------------------------------- uploaded files
Encabezados == <<StrHeader("id"), StrHeader("x"), StrHeader("y")>>

Fila(x, y) == <<TextCell, NumCell(x), NumCell(y)>>

\* X = 1..5, Y = 2 X
Ejemplo == XlsxFile("ejemplo.xlsx", Encabezados, [i \in 1..5 |-> Fila(i, 2 * i)])

XConstante == XlsxFile("x_constante.xlsx", Encabezados,
                       <<Fila(2, 1), Fila(2, 2), Fila(2, 3)>>)

DosFilas == XlsxFile("dos_filas.xlsx", Encabezados, <<Fila(1, 3), Fila(2, 5)>>)

UnaFila == XlsxFile("una_fila.xlsx", Encabezados, <<Fila(1, 3)>>)

SinEncabezado == XlsxFile("sin_encabezado.xlsx",
                          <<StrHeader("id"), EmptyHeader, StrHeader("y")>>,
                          <<Fila(0, 1), Fila(1, 1), Fila(2, 4)>>)

ConNulo == XlsxFile("con_nulo.xlsx", Encabezados,
                    <<Fila(1, 2), <<TextCell, NumCell(2), NullCell>>, Fila(3, 1)>>)

NoNumerica == XlsxFile("no_numerica.xlsx", Encabezados,
                       <<Fila(1, 2), <<NullCell, TextCell, NumCell(2)>>>>)

DosColumnas == XlsxFile("dos_columnas.xlsx", <<StrHeader("x"), StrHeader("y")>>,
                        <<<<NumCell(1), NullCell>>>>)

Corrupto == CorruptFile("corrupto.xlsx")

\* the files a session uploads
SessionFiles == {Ejemplo, XConstante, DosFilas, ConNulo, Corrupto}

Cells == {NumCell(1), TextCell, NullCell}

HeaderCells == {StrHeader("h"), EmptyHeader, IntHeader}

Widen(row, nc, filler) == [j \in 1..nc |-> IF j <= Len(row) THEN row[j] ELSE filler]

\* A sheet drawn for the loader: nc columns, the header cells h and the rows
\* of cells given for its first three columns; a fourth column is headed and
\* numeric.
Sheet(nc, h, rows) ==
    XlsxFile("f.xlsx", Widen(h, nc, StrHeader("h")),
             [i \in 1..Len(rows) |-> Widen(rows[i], nc, NumCell(1))])

Width(nc) == IF nc < 3 THEN nc ELSE 3

\* A well-formed sheet drawn for the engine: the rows (X, Y) of xy.
Dataset(xy) ==
    XlsxFile("f.xlsx", Encabezados, [i \in 1..Len(xy) |-> Fila(xy[i][1], xy[i][2])])

\* The loader and the engine are pure functions of the file, and every render
\* calls them again on the same file: their results for the files of a
\* session are tabulated here once, and Loaded(f) and Fitted(f) stand for
\* cargar_y_validar_datos(f) and calcular_estadisticos of the data it returns.
SessionResults ==
    {[f |-> f,
      ret |-> cargar_y_validar_datos(f),
      stats |-> IF cargar_y_validar_datos(f).data # <<>>
                THEN <<calcular_estadisticos(cargar_y_validar_datos(f).data[1])>>
                ELSE <<>>] : f \in SessionFiles}

Loaded(f) == (CHOOSE e \in SessionResults : e.f = f).ret

Fitted(f) == (CHOOSE e \in SessionResults : e.f = f).stats[1]

\* ------------------------------------------------------------- server
VARIABLES file,        \* input.file(): <<>> is None, else <<the uploaded file>>
          signo, centenas, decenas, unidades,   \* the four sliders
          out,         \* what each of the four outputs last rendered
          call         \* a direct call of the loader or the engine

vars == <<file, signo, centenas, decenas, unidades, out, call>>

MsgSinArchivo == "No se ha cargado ningun archivo."

MsgCargado == "Archivo cargado: "

\* what a render function returned: a text, HTML, or None (nothing shown)
Text(s) == [kind |-> "text", text |-> s, name |-> ""]

Nothing == [kind |-> "none"]

\* the same with the hundreds weighted as tens
XHypotheticalTens(s, c, d, u) == s * (c * 10 + d * 10 + u)

\* x_hypothetical of lines 136 and 147
XHypothetical(s, c, d, u) == s * (c * 100 + d * 10 + u)

\* every X the four sliders can compose
AllX == {XHypothetical(s, c, d, u) :
            s \in SignoValues, c \in DigitValues, d \in DigitValues, u \in DigitValues}

status(f) ==
    IF f = <<>> THEN Text(MsgSinArchivo)
    ELSE LET r == Loaded(f[1])
         IN  IF r.error_msg # <<>> THEN Text(r.error_msg[1])
             ELSE [kind |-> "text", text |-> MsgCargado, name |-> f[1].name]

estadisticos(f) ==
    IF f = <<>> THEN Text(MsgSinArchivo)
    ELSE LET r == Loaded(f[1])
         IN  IF r.data # <<>>
             THEN [kind |-> "html", stats |-> Fitted(f[1])]
             ELSE Nothing

interpretacion(f, s, c, d, u) ==
    IF f = <<>> THEN Text(MsgSinArchivo)
    ELSE LET r == Loaded(f[1])
         IN  IF r.data # <<>>
             THEN LET stats == Fitted(f[1])
                      x_hypothetical == XHypothetical(s, c, d, u)
                  IN  [kind |-> "html", x |-> x_hypothetical,
                       y |-> Predict(stats.interseccion, stats.pendiente,
                                     Num(x_hypothetical))]
             ELSE Nothing

plot(f, s, c, d, u) ==
    IF f = <<>> THEN Nothing
    ELSE LET r == Loaded(f[1])
         IN  IF r.data # <<>>
             THEN LET x_hypothetical == XHypothetical(s, c, d, u)
                      stats == Fitted(f[1])
                  IN  [kind |-> "html",
                       fig |-> crear_grafico_interactivo(r.data[1],
                                   stats.interseccion, stats.pendiente,
                                   x_hypothetical)]
             ELSE Nothing

\* interpretacion and plot read the sliders only past their two early
\* returns; an output is re-rendered when an input it read changes
ReadsSliders(f) == f # <<>> /\ Loaded(f[1]).data # <<>>

Idle == [fn |-> "none", arg |-> <<>>, ret |-> <<>>]

\* ------------------------------------------------------------ session
Render(f, s, c, d, u) ==
    [status |-> status(f),
     estadisticos |-> estadisticos(f),
     interpretacion |-> interpretacion(f, s, c, d, u),
     plot |-> plot(f, s, c, d, u)]

\* the same with plot left as it was
RerenderSinPlot(o, f, s, c, d, u) ==
    IF ReadsSliders(f)
    THEN [o EXCEPT !.interpretacion = interpretacion(f, s, c, d, u)]
    ELSE o

\* a slider moved: the outputs that read the sliders are rendered again
Rerender(o, f, s, c, d, u) ==
    IF ReadsSliders(f)
    THEN [o EXCEPT !.interpretacion = interpretacion(f, s, c, d, u),
                   !.plot = plot(f, s, c, d, u)]
    ELSE o

\* the session starts with no file, the sliders at their initial values
\* and every output rendered once
Init ==
    /\ file = <<>>
    /\ signo = 1
    /\ centenas = 0
    /\ decenas = 0
    /\ unidades = 0
    /\ out = Render(<<>>, 1, 0, 0, 0)
    /\ call = Idle

\* a file is uploaded: input.file() changes and all four outputs, which
\* read it, are rendered again
Upload(f) ==
    /\ file' = <<f>>
    /\ out' = Render(<<f>>, signo, centenas, decenas, unidades)
    /\ UNCHANGED <<signo, centenas, decenas, unidades, call>>

\* a slider is moved to another of its positions; interpretacion and plot
\* are rendered again if they read the sliders
SetSlider(name, v) ==
    /\ signo' = IF name = "signo" THEN v ELSE signo
    /\ centenas' = IF name = "centenas" THEN v ELSE centenas
    /\ decenas' = IF name = "decenas" THEN v ELSE decenas
    /\ unidades' = IF name = "unidades" THEN v ELSE unidades
    /\ <<signo', centenas', decenas', unidades'>> # <<signo, centenas, decenas, unidades>>
    /\ out' = Rerender(out, file, signo', centenas', decenas', unidades')
    /\ UNCHANGED <<file, call>>

Next ==
    \/ \E f \in SessionFiles : Upload(f)
    \/ \E v \in SignoValues : SetSlider("signo", v)
    \/ \E name \in {"centenas", "decenas", "unidades"} :
          \E v \in DigitValues : SetSlider(name, v)

Spec == Init /\ [][Next]_vars

\* ------------------------------------------- the loader called directly
NoSession ==
    /\ file = <<>>
    /\ signo = 1
    /\ centenas = 0
    /\ decenas = 0
    /\ unidades = 0
    /\ out = Render(<<>>, 1, 0, 0, 0)

LoaderCall(f) == [fn |-> "cargar_y_validar_datos", arg |-> <<f>>, ret |-> <<>>]

\* the loader is given an unreadable file, one of the named sheets, or any
\* sheet of a column count in ColCounts with at most MaxRows rows
InitLoader ==
    /\ NoSession
    /\ \/ \E f \in {Corrupto, SinEncabezado, DosColumnas, NoNumerica} :
             call = LoaderCall(f)
       \/ \E nc \in ColCounts : \E m \in 0..MaxRows :
             \E h \in [1..Width(nc) -> HeaderCells] :
                \E rows \in [1..m -> [1..Width(nc) -> Cells]] :
                   call = LoaderCall(Sheet(nc, h, rows))

CallLoader ==
    /\ call.fn = "cargar_y_validar_datos"
    /\ call.ret = <<>>
    /\ call' = [call EXCEPT !.ret = <<cargar_y_validar_datos(call.arg[1])>>]
    /\ UNCHANGED <<file, signo, centenas, decenas, unidades, out>>

NextLoader == CallLoader

SpecLoader == InitLoader /\ [][NextLoader]_vars

\* ------------------------------------------- the engine called directly
EngineCall(f) ==
    [fn |-> "calcular_estadisticos", arg |-> cargar_y_validar_datos(f).data,
     ret |-> <<>>]

\* the engine is given what the loader returned for a well-formed sheet: one
\* of the named ones, or any of 1..MaxN rows with X and Y in 0..MaxVal
InitEngine ==
    /\ NoSession
    /\ \/ \E f \in {Ejemplo, XConstante, DosFilas, UnaFila} : call = EngineCall(f)
       \/ \E m \in 1..MaxN :
             \E xy \in [1..m -> (0..MaxVal) \X (0..MaxVal)] :
                call = EngineCall(Dataset(xy))

CallEngine ==
    /\ call.fn = "calcular_estadisticos"
    /\ call.ret = <<>>
    /\ call' = [call EXCEPT !.ret = <<calcular_estadisticos(call.arg[1])>>]
    /\ UNCHANGED <<file, signo, centenas, decenas, unidades, out>>

NextEngine == CallEngine

SpecEngine == InitEngine /\ [][NextEngine]_vars

\* ===================================================================
\* Properties
\* ===================================================================
LoaderDone == call.fn = "cargar_y_validar_datos" /\ call.ret # <<>>

EngineDone == call.fn = "calcular_estadisticos" /\ call.ret # <<>>

\* C1: the loader reports the earliest failing check in the order parse,
\* column count, headers are strings, columns 1 and 2 numeric, no null cell,
\* whatever later checks would also fail.
C1_EarliestFailingCheck ==
    LoaderDone =>
        LET f == call.arg[1]
            r == call.ret[1]
            df == read_excel(f)
            three == Len(df.columns) = 3
            numeric == is_numeric_dtype(df, 2) /\ is_numeric_dtype(df, 3)
        IN  /\ f.corrupt => r = Ret(<<>>, <<MsgNoCarga>>)
            /\ (~f.corrupt /\ ~three) => r = Ret(<<>>, <<MsgTresColumnas>>)
            /\ (~f.corrupt /\ three /\ ~AllStrColumns(df))
                   => r = Ret(<<>>, <<MsgEncabezado>>)
            /\ (~f.corrupt /\ three /\ AllStrColumns(df) /\ ~numeric)
                   => r = Ret(<<>>, <<MsgNumericas>>)
            /\ (~f.corrupt /\ three /\ AllStrColumns(df) /\ numeric /\ HasNull(df))
                   => r = Ret(<<>>, <<MsgNulos>>)

\* a 3-column sheet with a text in column 1 and an empty cell got the
\* numeric message
C1_Witness ==
    /\ LoaderDone
    /\ ~call.arg[1].corrupt
    /\ Len(call.arg[1].header) = 3
    /\ Len(call.arg[1].rows) = 1
    /\ call.arg[1].rows[1][2].t = "text"
    /\ call.arg[1].rows[1][1].t = "null"
    /\ call.ret[1].error_msg = <<MsgNumericas>>

\* every header cell of the sheet holds a text
EveryColumnHeaded(f) == \A j \in 1..Len(f.header) : f.header[j].t = "str"

\* C2: the loader returns (dataset, no error) exactly when the sheet has 3
\* columns, every column is headed, columns 1 and 2 are numeric and no cell
\* is null; otherwise it returns no dataset and an error message.
C2_AcceptsExactlyWellFormed ==
    LoaderDone =>
        LET f == call.arg[1]
            r == call.ret[1]
            df == read_excel(f)
            wellFormed == /\ ~f.corrupt
                          /\ Len(f.header) = 3
                          /\ EveryColumnHeaded(f)
                          /\ is_numeric_dtype(df, 2)
                          /\ is_numeric_dtype(df, 3)
                          /\ ~HasNull(df)
        IN  /\ (r.data # <<>> /\ r.error_msg = <<>>) <=> wellFormed
            /\ ~wellFormed => (r.data = <<>> /\ r.error_msg # <<>>)

\* C3: a 3-column sheet with a header cell that is empty or not a text gets
\* the header message and no dataset.
C3_MissingHeaderRejected ==
    LoaderDone =>
        LET f == call.arg[1]
            r == call.ret[1]
        IN  (~f.corrupt /\ Len(f.header) = 3 /\ ~EveryColumnHeaded(f))
                => r = Ret(<<>>, <<MsgEncabezado>>)

\* C4: the loader always returns normally, with exactly one of dataset and
\* error message set, and an unreadable file gets the could-not-load message.
C4_NoFaultEscapes ==
    LoaderDone =>
        LET f == call.arg[1]
            r == call.ret[1]
        IN  /\ ~r.raised
            /\ Len(r.data) + Len(r.error_msg) = 1
            /\ f.corrupt => r.error_msg = <<MsgNoCarga>>

C4_Witness ==
    /\ LoaderDone
    /\ call.arg[1].corrupt
    /\ call.ret[1] = Ret(<<>>, <<MsgNoCarga>>)

\* what the loader returns for the file of the session (file # <<>>)
Current == cargar_y_validar_datos(file[1])

CurrentX == Values(Current.data[1], 2)

IsConstant(S) == \A i \in 1..Len(S) : S[i] = S[1]

Rendered(o) == o.kind = "html"

\* C5: for an accepted dataset whose X column is constant the engine signals
\* an error: no statistics, prediction or plot is rendered from a result with
\* an undefined slope.
C5_ConstantXSignalled ==
    (file # <<>> /\ Current.data # <<>> /\ IsConstant(CurrentX))
        => /\ ~Rendered(out.estadisticos)
           /\ ~Rendered(out.interpretacion)
           /\ ~Rendered(out.plot)

\* C6: for an accepted dataset of at most 2 rows the engine signals an error
\* instead of returning a result whose standard error is undefined.
C6_TooFewRowsSignalled ==
    (file # <<>> /\ Current.data # <<>> /\ Len(CurrentX) <= 2)
        => ~Rendered(out.estadisticos)

\* C7: while no file has been supplied each of the four outputs shows the
\* no-file message, whatever the sliders.
C7_NoFileMessageEverywhere ==
    file = <<>> =>
        /\ out.status = Text(MsgSinArchivo)
        /\ out.estadisticos = Text(MsgSinArchivo)
        /\ out.interpretacion = Text(MsgSinArchivo)
        /\ out.plot = Text(MsgSinArchivo)

\* C8: the sign slider is -1 or +1 and never 0, each digit slider is in
\* 0..9, the composed X is an integer of -999..999, every integer of
\* -999..999 is composed by some slider positions, and interpretacion and
\* plot show the same X, the one composed from the current sliders.
C8_HypotheticalX ==
    /\ signo \in {-1, 1}
    /\ {centenas, decenas, unidades} \subseteq 0..9
    /\ XHypothetical(signo, centenas, decenas, unidades) \in -999..999
    /\ AllX = -999..999
    /\ Rendered(out.interpretacion) <=> Rendered(out.plot)
    /\ Rendered(out.interpretacion) =>
          /\ out.interpretacion.x = signo * (100 * centenas + 10 * decenas + unidades)
          /\ out.plot.fig.point.x = out.interpretacion.x

C8_Witness ==
    /\ signo = -1 /\ centenas = 9 /\ decenas = 9 /\ unidades = 9
    /\ Rendered(out.interpretacion)
    /\ out.interpretacion.x = -999
    /\ out.plot.fig.point.x = -999

\* C9: for a dataset of at least 3 rows with a non-constant X the slope and
\* the intercept are finite, b = cov(X,Y)/var(X), and the fitted line passes
\* through the centroid: a + b * mean(X) = mean(Y) exactly; X = 1..5,
\* Y = 2 X gives slope 2, intercept 0 and predicts 12 at x = 6.
C9_LineThroughCentroid ==
    EngineDone =>
        LET X == Values(call.arg[1], 2)
            Y == Values(call.arg[1], 3)
            st == call.ret[1]
        IN  /\ (Len(X) >= 3 /\ ~IsConstant(X)) =>
                  /\ IsFinite(st.pendiente)
                  /\ IsFinite(st.interseccion)
                  /\ RMul(st.pendiente, Var(X)) = Cov(X, Y)
                  /\ Predict(st.interseccion, st.pendiente, Mean(X)) = Mean(Y)
            /\ call.arg = cargar_y_validar_datos(Ejemplo).data =>
                  /\ st.pendiente = Num(2)
                  /\ st.interseccion = Num(0)
                  /\ Predict(st.interseccion, st.pendiente, Num(6)) = Num(12)

\* a fit of 3 rows with a slope that is not an integer and a line that does
\* not pass through the origin
C9_Witness ==
    /\ EngineDone
    /\ Len(call.arg[1].rows) = 3
    /\ ~IsConstant(Values(call.arg[1], 2))
    /\ call.ret[1].pendiente.d = 2
    /\ call.ret[1].interseccion.n # 0

\* C10: when the loader rejects the current file, status shows the loader's
\* message and the other three outputs show nothing; when it accepts, status
\* shows 'Archivo cargado: <name>.' and the statistics, the prediction and
\* the figure are those of that file and of the current sliders.
C10_OutputsFromCurrentFile ==
    file # <<>> =>
        IF Current.data = <<>>
        THEN /\ out.status = Text(Current.error_msg[1])
             /\ out.estadisticos = Nothing
             /\ out.interpretacion = Nothing
             /\ out.plot = Nothing
        ELSE LET st == calcular_estadisticos(Current.data[1])
                 x == XHypothetical(signo, centenas, decenas, unidades)
             IN  /\ out.status = [kind |-> "text", text |-> MsgCargado,
                                  name |-> file[1].name]
                 /\ out.estadisticos = [kind |-> "html", stats |-> st]
                 /\ out.interpretacion =
                        [kind |-> "html", x |-> x,
                         y |-> Predict(st.interseccion, st.pendiente, Num(x))]
                 /\ out.plot =
                        [kind |-> "html",
                         fig |-> crear_grafico_interactivo(Current.data[1],
                                     st.interseccion, st.pendiente, x)]

\* a rejected file uploaded with the sliders moved away from their start
C10_Witness ==
    /\ file = <<ConNulo>>
    /\ centenas = 3
    /\ out.status = Text(MsgNulos)
    /\ out.plot = Nothing

====
